---- MODULE Spec2Model ----
(***************************************************************************)
(* Model of the navigation store of Permafrost Engine                      *)
(* (src/navigation/nav.c, src/navigation/nav_data.h): N_BuildForMapData    *)
(* with its three phases, the cost field builder (n_set_cost_for_tile),    *)
(* portal discovery (n_create_portals, n_link_chunks) and the portal       *)
(* linker (n_link_chunk_portals).                                          *)
(*                                                                         *)
(* The field resolution and the portal capacity are 64 in nav_data.h; the  *)
(* model runs the same code on a smaller field and a smaller capacity.     *)
(***************************************************************************)
EXTENDS Integers, Sequences, FiniteSets, TLC

(***************************************************************************)
(* Sizes of the model.                                                     *)
(***************************************************************************)
\* nav_data.h: #define FIELD_RES_R 64 (scaled down)
FIELD_RES_R == 4
\* nav_data.h: #define FIELD_RES_C 64 (scaled down)
FIELD_RES_C == 2
\* nav_data.h: #define MAX_PORTALS_PER_CHUNK 64 (scaled down)
MAX_PORTALS_PER_CHUNK == 2
\* the chunk grid is at most MaxDim x MaxDim chunks
MaxDim == 2
\* a map has at most MaxTiles tiles in all
MaxTiles == 16
\* at most MaxSpecial tiles of a map differ from the plain tile
MaxSpecial == 2
\* ramp heights of the tiles of a map are 0 .. MaxRamp
MaxRamp == 2
\* the calls of N_BuildForMapData on one input
MaxBuilds == 2
\* the calls of M_AL_UpdateTile on one map
MaxEdits == 1
\* the longest path that n_render_grid_path is called with
MaxPath == 2

(***************************************************************************)
(* Program constants.                                                      *)
(***************************************************************************)
COST_IMPASSABLE == 255
EDGE_BOT == 1
EDGE_LEFT == 2
EDGE_RIGHT == 4
EDGE_TOP == 8
\* enum tiletype of map/public/tile.h: the flat tile is the first enumerator
TILETYPE_FLAT == 0
\* a ramp tile type (any enumerator other than TILETYPE_FLAT)
TILETYPE_RAMP_SN == 1

\* an integer that malloc returned memory for and the program has not written
Uninit == 0 - 1
\* the null pointer
NULL == "NULL"

CHUNK_IDX(r, width, c) == r * width + c

\* the C operator ! on an integer
LNot(x) == IF x = 0 THEN 1 ELSE 0

(***************************************************************************)
(* Tiles: the fields of struct tile that nav.c reads.                      *)
(***************************************************************************)
TileTypes == {TILETYPE_FLAT, TILETYPE_RAMP_SN}

Tiles == [pathable : BOOLEAN, type : TileTypes, ramp_height : 0..MaxRamp]

PlainTile == [pathable |-> TRUE, type |-> TILETYPE_FLAT, ramp_height |-> 0]

(***************************************************************************)
(* Cost Field Builder.                                                     *)
(***************************************************************************)
\* n_tile_pathable with the test of the tile type inverted
n_tile_pathable_flat_ramp(tile) ==
    IF ~tile.pathable THEN FALSE
    ELSE IF tile.type = TILETYPE_FLAT /\ tile.ramp_height > 1 THEN FALSE
    ELSE TRUE

\* nav.c:50-59.  In C, !tile->type == TILETYPE_FLAT is (!tile->type) == TILETYPE_FLAT.
n_tile_pathable(tile) ==
    IF ~tile.pathable THEN FALSE
    ELSE IF LNot(tile.type) = TILETYPE_FLAT /\ tile.ramp_height > 1 THEN FALSE
    ELSE TRUE

Cells == (0..(FIELD_RES_R - 1)) \X (0..(FIELD_RES_C - 1))

\* TileBlock without the last row of the block
TileBlock_short(cw, ch, tile_r, tile_c) ==
    LET field_per_map_r == FIELD_RES_R \div ch
        field_per_map_c == FIELD_RES_C \div cw
    IN  { <<tile_r * field_per_map_r + r, tile_c * field_per_map_c + c>> :
            r \in 0..(field_per_map_r - 2), c \in 0..(field_per_map_c - 1) }

\* TileBlock with one more column
TileBlock_wide(cw, ch, tile_r, tile_c) ==
    LET field_per_map_r == FIELD_RES_R \div ch
        field_per_map_c == FIELD_RES_C \div cw
    IN  { p \in Cells :
            /\ p[1] \in (tile_r * field_per_map_r)..(tile_r * field_per_map_r + field_per_map_r - 1)
            /\ p[2] \in (tile_c * field_per_map_c)..(tile_c * field_per_map_c + field_per_map_c) }

\* the cells the two loops of nav.c:74-79 write
TileBlock(cw, ch, tile_r, tile_c) ==
    LET field_per_map_r == FIELD_RES_R \div ch
        field_per_map_c == FIELD_RES_C \div cw
        r_base == tile_r * field_per_map_r
        c_base == tile_c * field_per_map_c
    IN  { <<r_base + r, c_base + c>> :
            r \in 0..(field_per_map_r - 1), c \in 0..(field_per_map_c - 1) }

\* n_set_cost_for_tile that writes the cells of a pathable tile only
n_set_cost_for_tile_pathable(cost_base, cw, ch, tile_r, tile_c, tile) ==
    LET block == TileBlock(cw, ch, tile_r, tile_c)
    IN  [p \in DOMAIN cost_base |->
           IF p \in block /\ n_tile_pathable(tile) THEN 1 ELSE cost_base[p]]

\* nav.c:61-80, on the cost grid of the chunk
n_set_cost_for_tile(cost_base, cw, ch, tile_r, tile_c, tile) ==
    LET cost == IF n_tile_pathable(tile) THEN 1 ELSE COST_IMPASSABLE
        block == TileBlock(cw, ch, tile_r, tile_c)
    IN  [p \in DOMAIN cost_base |-> IF p \in block THEN cost ELSE cost_base[p]]

\* nav.c:324-330: the tiles of one chunk, row by row, from tile index k on
RECURSIVE CostForTilesFrom(_, _, _, _, _)
CostForTilesFrom(cost_base, cw, ch, tiles, k) ==
    IF k >= cw * ch THEN cost_base
    ELSE CostForTilesFrom(
            n_set_cost_for_tile(cost_base, cw, ch, k \div cw, k % cw, tiles[k]),
            cw, ch, tiles, k + 1)

(***************************************************************************)
(* Portal Discovery.                                                       *)
(***************************************************************************)
RECURSIVE BitOr(_, _)
BitOr(x, y) ==
    IF x = 0 THEN y
    ELSE IF y = 0 THEN x
    ELSE 2 * BitOr(x \div 2, y \div 2) + (IF x % 2 = 1 \/ y % 2 = 1 THEN 1 ELSE 0)

RECURSIVE BitAnd(_, _)
BitAnd(x, y) ==
    IF x = 0 \/ y = 0 THEN 0
    ELSE 2 * BitAnd(x \div 2, y \div 2) + (IF x % 2 = 1 /\ y % 2 = 1 THEN 1 ELSE 0)

\* the int value of a C comparison
B2I(b) == IF b THEN 1 ELSE 0

\* nav.c:85.  == binds tighter than |, so each operand of || is
\* a_type | (b_type == EDGE_BOT) | EDGE_TOP, resp. ... | EDGE_RIGHT.
n_link_chunks_assert(a_type, b_type) ==
    \/ BitOr(BitOr(a_type, B2I(b_type = EDGE_BOT)), EDGE_TOP) /= 0
    \/ BitOr(BitOr(a_type, B2I(b_type = EDGE_LEFT)), EDGE_RIGHT) /= 0

IsHorizontal(type) == BitAnd(type, BitOr(EDGE_BOT, EDGE_TOP)) /= 0

\* nav.c:86-87
Stride(a_type) == IF IsHorizontal(a_type) THEN 1 ELSE FIELD_RES_C
LineLen(a_type) == IF IsHorizontal(a_type) THEN FIELD_RES_C ELSE FIELD_RES_R

\* nav.c:89-90: the offset of the cursor into cost_base before the loop
CursorStart(type) ==
    (IF type = EDGE_BOT THEN FIELD_RES_R - 1 ELSE 0) * FIELD_RES_C
    + (IF type = EDGE_RIGHT THEN FIELD_RES_C - 1 ELSE 0)

\* FixedIdx that is the first row or column for every edge
FixedIdx_first(type) == 0

\* nav.c:92-101
FixedIdx(type) ==
    IF type = EDGE_TOP THEN 0
    ELSE IF type = EDGE_BOT THEN FIELD_RES_R - 1
    ELSE IF type = EDGE_LEFT THEN 0
    ELSE FIELD_RES_C - 1

\* the cost cell a cursor at offset off points to
CellAt(cost_base, off) == cost_base[<<off \div FIELD_RES_C, off % FIELD_RES_C>>]

\* nav.c:118-120, 139-141: the coordinate of position i of an edge
EdgeCoord(type, i) ==
    IF IsHorizontal(type) THEN <<FixedIdx(type), i>> ELSE <<i, FixedIdx(type)>>

\* nav.c:111: the cursor points into cost_base when it is read.  The
\* assertion of nav.c:108-109 bounds the offset of b_cursor from below only
CursorInGrid(off) == off >= 0 /\ off < FIELD_RES_R * FIELD_RES_C

\* nav.c:111
can_cross(a, a_type, b, b_type, i) ==
    /\ CellAt(a.cost_base, CursorStart(a_type) + i * Stride(a_type)) /= COST_IMPASSABLE
    /\ CellAt(b.cost_base, CursorStart(b_type) + i * Stride(a_type)) /= COST_IMPASSABLE

\* nav.c:116-123: the record a compound literal writes; the fields it does
\* not name (endpoints[1], edges) are zeroed
NewPortal(coord, ep0, conn) ==
    [chunk |-> coord, endpoints |-> <<ep0, <<0, 0>> >>, num_neighbours |-> 0,
     edges |-> <<>>, connected |-> conn]

\* nav.c:134: the run is closed at a blocked position or at the end of the line
ClosesAt(in_portal, cross, i, line_len) ==
    in_portal /\ (~cross \/ i = line_len - 1)

\* CloseIdx that takes the position the loop is at as the last of the run
CloseIdx_current(cross, i) == i

\* nav.c:136
CloseIdx(cross, i) == IF ~cross THEN i - 1 ELSE i

\* ConnectedRef that takes the index from the chunk of the portal itself
ConnectedRef_own(own_n, other_i, other_n) == <<other_i, own_n>>

\* nav.c:122, 130: &other->portals[other->num_portals], in a portal that is
\* written at index own_n of its own chunk
ConnectedRef(own_n, other_i, other_n) == <<other_i, other_n>>

\* nav.c:104-156: the loop from position i on.  s = [a, b, in_portal, st];
\* a and b are the two struct nav_chunk, ai and bi their indices in
\* priv->chunks.  st becomes "oob" when a portal is written at index
\* MAX_PORTALS_PER_CHUNK of portals[] or a cursor is read beyond cost_base
\* (behaviour undefined from there on) and "assert" when an assertion of the
\* loop fails.
RECURSIVE WalkFrom(_, _, _, _, _, _, _, _)
WalkFrom(s, ai, a_type, a_coord, bi, b_type, b_coord, i) ==
    IF i >= LineLen(a_type) \/ s.st /= "ok" THEN s
    ELSE
    LET a == s.a
        b == s.b
        cross == can_cross(a, a_type, b, b_type, i)
        next ==
          IF ~CursorInGrid(CursorStart(b_type) + i * Stride(a_type))
          THEN [s EXCEPT !.st = "oob"]
          ELSE IF cross /\ ~s.in_portal THEN
            IF a.num_portals >= MAX_PORTALS_PER_CHUNK
               \/ b.num_portals >= MAX_PORTALS_PER_CHUNK
            THEN [s EXCEPT !.st = "oob"]
            ELSE [s EXCEPT
                   !.in_portal = TRUE,
                   !.a.portals[a.num_portals] =
                       NewPortal(a_coord, EdgeCoord(a_type, i),
                                 ConnectedRef(a.num_portals, bi, b.num_portals)),
                   !.b.portals[b.num_portals] =
                       NewPortal(b_coord, EdgeCoord(b_type, i),
                                 ConnectedRef(b.num_portals, ai, a.num_portals))]
          ELSE IF ClosesAt(s.in_portal, cross, i, LineLen(a_type)) THEN
            LET idx == CloseIdx(cross, i)
                t == [s EXCEPT
                       !.in_portal = FALSE,
                       !.a.portals[a.num_portals].endpoints[2] = EdgeCoord(a_type, idx),
                       !.b.portals[b.num_portals].endpoints[2] = EdgeCoord(b_type, idx),
                       !.a.num_portals = a.num_portals + 1,
                       !.b.num_portals = b.num_portals + 1]
            IN  IF t.a.num_portals <= MAX_PORTALS_PER_CHUNK
                   /\ t.b.num_portals <= MAX_PORTALS_PER_CHUNK
                THEN t ELSE [t EXCEPT !.st = "assert"]
          ELSE s
    IN  WalkFrom(next, ai, a_type, a_coord, bi, b_type, b_coord, i + 1)

\* nav.c:82-157
n_link_chunks(a, ai, a_type, a_coord, b, bi, b_type, b_coord) ==
    IF ~n_link_chunks_assert(a_type, b_type)
    THEN [a |-> a, b |-> b, in_portal |-> FALSE, st |-> "assert"]
    ELSE WalkFrom([a |-> a, b |-> b, in_portal |-> FALSE, st |-> "ok"],
                  ai, a_type, a_coord, bi, b_type, b_coord, 0)

\* nav.c:163-175: the calls of n_link_chunks that n_create_portals makes for
\* chunk k = CHUNK_IDX(r, width, c), in program order: bot, then right
CallsOfChunk(width, height, k) ==
    LET r == k \div width
        c == k % width
    IN  (IF r < height - 1 THEN << <<k, "bot">> >> ELSE <<>>)
        \o (IF c < width - 1 THEN << <<k, "right">> >> ELSE <<>>)

RECURSIVE CallsFrom(_, _, _)
CallsFrom(width, height, k) ==
    IF k >= width * height THEN <<>>
    ELSE CallsOfChunk(width, height, k) \o CallsFrom(width, height, k + 1)

\* all calls of n_link_chunks of one n_create_portals, in program order
LinkCalls(width, height) == CallsFrom(width, height, 0)

\* nav.c:177: the value n_links is compared with
ExpectedLinks(width, height) == width * (width - 1) + height * (height - 1)

(***************************************************************************)
(* Grid Pathfinder (a_star.c), as section 1 and 6 of the specification     *)
(* describe it: the lowest-cost path over passable cells and its cost, or  *)
(* no path.  Cells are 4-connected and every step costs the cost of the    *)
(* cell entered.                                                           *)
(***************************************************************************)
Passable(cost_base, p) == p \in DOMAIN cost_base /\ cost_base[p] /= COST_IMPASSABLE

GridNeighbours(p) ==
    { <<p[1] + 1, p[2]>>, <<p[1] - 1, p[2]>>, <<p[1], p[2] + 1>>, <<p[1], p[2] - 1>> }

RECURSIVE GridSearch(_, _, _, _, _)
GridSearch(frontier, visited, d, goal, cost_base) ==
    IF goal \in frontier THEN [has_path |-> TRUE, cost |-> d]
    ELSE IF frontier = {} THEN [has_path |-> FALSE, cost |-> 0]
    ELSE LET nxt == { q \in UNION { GridNeighbours(p) : p \in frontier } :
                        Passable(cost_base, q) /\ q \notin visited }
         IN  GridSearch(nxt, visited \cup nxt, d + 1, goal, cost_base)

AStar_GridPath(a, b, cost_base) ==
    IF ~Passable(cost_base, a) \/ ~Passable(cost_base, b)
    THEN [has_path |-> FALSE, cost |-> 0]
    ELSE GridSearch({a}, {a}, 0, b, cost_base)

(***************************************************************************)
(* Portal Linker.                                                          *)
(***************************************************************************)
\* Midpoint that leaves out the division
Midpoint_sum(port) ==
    << port.endpoints[1][1] + port.endpoints[2][1],
       port.endpoints[1][2] + port.endpoints[2][2] >>

\* Midpoint that takes the first endpoint of the portal
Midpoint_first(port) == port.endpoints[1]

\* nav.c:274-281: integer division of the sums of the endpoint coordinates
Midpoint(port) ==
    << (port.endpoints[1][1] + port.endpoints[2][1]) \div 2,
       (port.endpoints[1][2] + port.endpoints[2][2]) \div 2 >>

\* SkipsPair that also skips the portals before portal i
SkipsPair_upto(i, j) == j <= i

\* SkipsPair that also skips the first portal of the chunk as a target
SkipsPair_first(i, j) == i = j \/ j = 0

\* SkipsPair that skips no pair
SkipsPair_none(i, j) == FALSE

\* nav.c:270-271
SkipsPair(i, j) == i = j

\* HasPath that takes every call of the pathfinder as a success
HasPath_always(res) == TRUE

\* nav.c:284-285
HasPath(res) == res.has_path

\* nav.c:268-289: the inner loop for portal i, from candidate j on
RECURSIVE LinkPortalFrom(_, _, _, _)
LinkPortalFrom(chunk, ci, i, j) ==
    IF j >= chunk.num_portals THEN chunk
    ELSE IF SkipsPair(i, j) THEN LinkPortalFrom(chunk, ci, i, j + 1)
    ELSE
    LET port == chunk.portals[i]
        res == AStar_GridPath(Midpoint(port), Midpoint(chunk.portals[j]), chunk.cost_base)
    IN  IF HasPath(res)
        THEN LinkPortalFrom(
               [chunk EXCEPT !.portals[i].edges =
                                 Append(@, [neighbour |-> <<ci, j>>, cost |-> res.cost]),
                             !.portals[i].num_neighbours = @ + 1],
               ci, i, j + 1)
        ELSE LinkPortalFrom(chunk, ci, i, j + 1)

\* nav.c:265-290: the outer loop, from portal i on
RECURSIVE LinkPortalsFrom(_, _, _)
LinkPortalsFrom(chunk, ci, i) ==
    IF i >= chunk.num_portals THEN chunk
    ELSE LinkPortalsFrom(LinkPortalFrom(chunk, ci, i, 0), ci, i + 1)

\* n_link_chunk_portals that gives up the last portal of the chunk
n_link_chunk_portals_dropping(chunk, ci) ==
    LET linked == LinkPortalsFrom(chunk, ci, 0)
    IN  [linked EXCEPT !.num_portals = IF @ > 0 THEN @ - 1 ELSE @]

\* nav.c:260-293; ci is the index of the chunk in priv->chunks (a pointer to
\* a portal is the pair of its chunk's index and its index in portals[])
n_link_chunk_portals(chunk, ci) == LinkPortalsFrom(chunk, ci, 0)

(***************************************************************************)
(* The state of the map: the call of N_BuildForMapData that loads it and   *)
(* the calls that are made on the loaded map.                              *)
(***************************************************************************)
VARIABLES
    pc,           \* where the call is: "start", "cost", "portals", "link",
                  \* "done", "fail_alloc", "assert_fail", "undefined"
    w, h,         \* arguments: the chunk grid
    chunk_w,      \* argument: tiles per chunk row
    chunk_h,      \* argument: tiles per chunk column
    chunk_tiles,  \* argument: the tiles of every chunk
    chunks,       \* ret->chunks
    cur,          \* the chunk (cost and link phase) or the call (portal phase) that is next
    n_links,      \* the local n_links of n_create_portals
    ret,          \* the value returned
    heap,         \* what the memory that malloc returns holds
    builds,       \* the calls of N_BuildForMapData that were begun
    first,        \* what the first call of N_BuildForMapData built
    updates,      \* the calls of M_AL_UpdateTile: arguments and return value
    overlay,      \* the calls of R_GL_DrawMapOverlayQuads that the last call
                  \* of N_RenderPathableChunk made
    walk,         \* the call of n_link_chunks that is made on its own
    game,         \* where the game is: "loading" in G_NewGameWithMap after
                  \* g_reset, "idle" between calls, "shutdown", "undefined"
    s_gs_map,     \* s_gs.map: no map, or the map with its nav_private
    built,        \* the calls of N_BuildForMapData that returned a store
    frees,        \* the calls of N_FreePrivate for every store; store 0 is NULL
    grid_path     \* the call of n_render_grid_path: the path, the elements
                  \* of the path it read and the calls of
                  \* R_GL_DrawMapOverlayQuads it made

vars == <<pc, w, h, chunk_w, chunk_h, chunk_tiles, chunks, cur, n_links, ret,
          heap, builds, first, updates, overlay, walk, game, s_gs_map, built, frees,
          grid_path>>

\* the state of the game and of the calls of n_link_chunks and
\* n_render_grid_path on their own
rest == <<walk, game, s_gs_map, built, frees, grid_path>>

\* what a call of N_BuildForMapData leaves alone
later == <<heap, builds, first, updates, overlay, rest>>

args == <<w, h, chunk_w, chunk_h, chunk_tiles>>

None == "none"

\* ResolutionAssert without the assertion on the columns
ResolutionAssert_rows(cw, ch) ==
    FIELD_RES_R >= ch /\ FIELD_RES_R % ch = 0

\* nav.c:313-314
ResolutionAssert(cw, ch) ==
    /\ FIELD_RES_R >= ch /\ FIELD_RES_R % ch = 0
    /\ FIELD_RES_C >= cw /\ FIELD_RES_C % cw = 0

\* the sets of at most n numbers of lo .. hi - 1
RECURSIVE SetsUpTo(_, _, _)
SetsUpTo(n, lo, hi) ==
    IF n = 0 THEN {{}}
    ELSE {{}} \cup UNION { { {p} \cup S : S \in SetsUpTo(n - 1, p + 1, hi) } : p \in lo..(hi - 1) }

\* the maps of the model: plain tiles but for at most MaxSpecial tiles, which
\* are all of one other kind; a map whose chunk dimensions fail the
\* assertions of nav.c:313-314, and whose tiles are therefore never read,
\* has plain tiles only
Init ==
    /\ pc = "start"
    /\ w \in 1..MaxDim
    /\ h \in 1..MaxDim
    /\ chunk_w \in 1..(FIELD_RES_C + 1)
    /\ chunk_h \in 1..(FIELD_RES_R + 1)
    /\ w * h * chunk_w * chunk_h <= MaxTiles
    /\ \E kind \in Tiles \ {PlainTile} :
       \E special \in SetsUpTo(IF ResolutionAssert(chunk_w, chunk_h) THEN MaxSpecial ELSE 0,
                                0, w * h * chunk_w * chunk_h) :
          chunk_tiles =
            [k \in 0..(w * h - 1) |->
               [t \in 0..(chunk_w * chunk_h - 1) |->
                  IF k * (chunk_w * chunk_h) + t \in special THEN kind ELSE PlainTile]]
    /\ chunks = <<>>
    /\ cur = 0
    /\ n_links = 0
    /\ ret = None
    /\ heap = Uninit
    /\ builds = 1
    /\ first = <<>>
    /\ updates = <<>>
    /\ overlay = <<>>
    /\ walk = <<>>
    /\ game = "loading"
    /\ s_gs_map = <<>>
    /\ built = {}
    /\ frees = [m \in 0..MaxBuilds |-> 0]
    /\ grid_path = <<>>

\* memory as malloc returns it
UninitPortal ==
    [chunk |-> <<heap, heap>>,
     endpoints |-> << <<heap, heap>>, <<heap, heap>> >>,
     num_neighbours |-> heap, edges |-> <<>>, connected |-> <<heap, heap>>]

FreshChunk ==
    [num_portals |-> heap,
     portals |-> [k \in 0..(MAX_PORTALS_PER_CHUNK - 1) |-> UninitPortal],
     cost_base |-> [p \in Cells |-> heap]]

\* nav.c:306-308, 348-349: malloc fails
AllocFail ==
    /\ pc = "start"
    /\ pc' = "fail_alloc"
    /\ ret' = NULL
    /\ UNCHANGED <<args, later, chunks, cur, n_links>>

\* nav.c:306-314: malloc succeeds and the two assertions hold
BuildBegin ==
    /\ pc = "start"
    /\ ResolutionAssert(chunk_w, chunk_h)
    /\ chunks' = [k \in 0..(w * h - 1) |-> FreshChunk]
    /\ pc' = "cost"
    /\ cur' = 0
    /\ UNCHANGED <<args, later, n_links, ret>>

\* nav.c:306-314: malloc succeeds and one of the two assertions fails
ResolutionAssertFail ==
    /\ pc = "start"
    /\ ~ResolutionAssert(chunk_w, chunk_h)
    /\ chunks' = [k \in 0..(w * h - 1) |-> FreshChunk]
    /\ pc' = "assert_fail"
    /\ UNCHANGED <<args, later, cur, n_links, ret>>

\* nav.c:320-330: one iteration of the chunk loops of the first phase
CostChunk ==
    /\ pc = "cost"
    /\ chunks' = [chunks EXCEPT
                    ![cur].num_portals = 0,
                    ![cur].cost_base =
                        CostForTilesFrom(@, chunk_w, chunk_h, chunk_tiles[cur], 0)]
    /\ IF cur + 1 < w * h
       THEN cur' = cur + 1 /\ pc' = "cost" /\ n_links' = n_links
       ELSE cur' = 1 /\ pc' = "portals" /\ n_links' = 0
    /\ UNCHANGED <<args, later, ret>>

\* the arguments of a call of n_link_chunks (nav.c:170-171)
CallArgs(call) ==
    LET k == call[1]
        r == k \div w
        c == k % w
    IN  IF call[2] = "bot"
        THEN [ai |-> k, a_type |-> EDGE_BOT, a_coord |-> <<r, c>>,
              bi |-> CHUNK_IDX(r + 1, w, c), b_type |-> EDGE_TOP, b_coord |-> <<r + 1, c>>]
        ELSE [ai |-> k, a_type |-> EDGE_RIGHT, a_coord |-> <<r, c>>,
              bi |-> CHUNK_IDX(r, w, c + 1), b_type |-> EDGE_LEFT, b_coord |-> <<r, c + 1>>]

\* the result of the call of n_link_chunks with arguments ca on chs
WalkResult(chs, ca) ==
    n_link_chunks(chs[ca.ai], ca.ai, ca.a_type, ca.a_coord,
                  chs[ca.bi], ca.bi, ca.b_type, ca.b_coord)

\* LinksAfter that counts a chunk with two neighbours once
LinksAfter_per_chunk(n) ==
    LET calls == LinkCalls(w, h)
        done == { m \in 1..n : n = Len(calls) \/ calls[m][1] /= calls[n + 1][1] }
    IN  Cardinality({ calls[m][1] : m \in done })

\* nav.c:173: what n_links has gained when call number n has returned: the
\* loop body of a chunk adds !!bot + !!right once both calls are made
LinksAfter(n) ==
    LET calls == LinkCalls(w, h)
        done == { m \in 1..n : n = Len(calls) \/ calls[m][1] /= calls[n + 1][1] }
    IN  Cardinality(done)

\* nav.c:170-171: the next call of n_link_chunks in n_create_portals
LinkChunksStep ==
    /\ pc = "portals"
    /\ cur <= Len(LinkCalls(w, h))
    /\ LET ca == CallArgs(LinkCalls(w, h)[cur])
           res == WalkResult(chunks, ca)
       IN  /\ chunks' = [chunks EXCEPT ![ca.ai] = res.a, ![ca.bi] = res.b]
           /\ pc' = IF res.st = "ok" THEN "portals"
                    ELSE IF res.st = "oob" THEN "undefined" ELSE "assert_fail"
    /\ n_links' = LinksAfter(cur)
    /\ cur' = cur + 1
    /\ UNCHANGED <<args, later, ret>>

\* nav.c:177 holds: n_create_portals returns
CreatePortalsEnd ==
    /\ pc = "portals"
    /\ cur > Len(LinkCalls(w, h))
    /\ n_links = ExpectedLinks(w, h)
    /\ pc' = IF w * h > 0 THEN "link" ELSE "done"
    /\ cur' = 0
    /\ UNCHANGED <<args, later, chunks, n_links, ret>>

\* nav.c:177 fails
LinkCountAssertFail ==
    /\ pc = "portals"
    /\ cur > Len(LinkCalls(w, h))
    /\ n_links /= ExpectedLinks(w, h)
    /\ pc' = "assert_fail"
    /\ UNCHANGED <<args, later, chunks, cur, n_links, ret>>

\* what a call has built: the cost grid, num_portals and the counted portals
\* of every chunk
BuildResult(chs) ==
    [k \in DOMAIN chs |->
       [cost_base |-> chs[k].cost_base,
        num_portals |-> chs[k].num_portals,
        portals |-> [n \in 0..(chs[k].num_portals - 1) |-> chs[k].portals[n]]]]

\* nav.c:338-346: one iteration of the chunk loops of the third phase, and
\* the return after the last
LinkChunkPortals ==
    /\ pc = "link"
    /\ chunks' = [chunks EXCEPT ![cur] = n_link_chunk_portals(@, cur)]
    /\ IF cur + 1 < w * h
       THEN cur' = cur + 1 /\ pc' = "link" /\ ret' = ret
       ELSE cur' = cur + 1 /\ pc' = "done" /\ ret' = "handle"
    /\ first' = IF cur + 1 < w * h \/ builds > 1 THEN first ELSE BuildResult(chunks')
    /\ UNCHANGED <<args, heap, builds, updates, overlay, n_links, rest>>

Next ==
    \/ AllocFail
    \/ BuildBegin
    \/ ResolutionAssertFail
    \/ CostChunk
    \/ LinkChunksStep
    \/ CreatePortalsEnd
    \/ LinkCountAssertFail
    \/ LinkChunkPortals

Spec == Init /\ [][Next]_vars

\* the tiles of the map that are not plain
NonPlain ==
    { <<k, t>> \in (0..(w * h - 1)) \X (0..(chunk_w * chunk_h - 1)) :
        chunk_tiles[k][t] /= PlainTile }

\* the maps on which a second call of N_BuildForMapData and the calls of
\* M_AL_UpdateTile are explored: those with fewer tiles that are not plain
InitFew == Init /\ Cardinality(NonPlain) < MaxSpecial

\* map_asset_load.c:216-221: what M_AL_InitMapFromStream returns once
\* N_BuildForMapData has returned nav_private
M_AL_InitMapFromStream_any(nav_private) == TRUE

M_AL_InitMapFromStream(nav_private) == IF nav_private = NULL THEN FALSE ELSE TRUE

(***************************************************************************)
(* N_BuildForMapData called again on the input of a call that returned.    *)
(***************************************************************************)
\* what memory that was never written may hold
Garbage == {Uninit, 0, COST_IMPASSABLE}

\* nav.c:299-306: the next call, with the arguments of the call before it,
\* on memory that holds anything
BuildAgain ==
    /\ pc = "done"
    /\ builds < MaxBuilds
    /\ builds' = builds + 1
    /\ heap' \in Garbage
    /\ pc' = "start"
    /\ chunks' = <<>>
    /\ cur' = 0
    /\ n_links' = 0
    /\ ret' = None
    /\ UNCHANGED <<args, first, updates, overlay, rest>>

NextTwice ==
    \/ Next
    \/ BuildAgain

SpecTwice == InitFew /\ [][NextTwice]_vars

(***************************************************************************)
(* M_AL_UpdateTile on the loaded map.  chunk_tiles[k] is the array         *)
(* map->chunks[k].tiles (map_asset_load.c:209-214) and chunk_w is          *)
(* TILES_PER_CHUNK_WIDTH.  R_GL_TileUpdate rewrites vertices of the render *)
(* mesh only, which are no state of this model.                            *)
(***************************************************************************)
\* the tile descriptors: those of the tiles of the map and those with a
\* chunk row or column one beyond the map
TileDescs ==
    [chunk_r : 0..h, chunk_c : 0..w, tile_r : 0..(chunk_h - 1), tile_c : 0..(chunk_w - 1)]

\* map_asset_load.c:235
DescInRange(desc) == ~(desc.chunk_r >= h \/ desc.chunk_c >= w)

\* map_asset_load.c:238-239: the chunk and the tile that are written
DescChunk(desc) == desc.chunk_r * w + desc.chunk_c
DescTile(desc) == desc.tile_r * chunk_w + desc.tile_c

\* NavAfterUpdate that discards the portals of the chunk of the tile
NavAfterUpdate_cleared(chs, desc, tile) ==
    [chs EXCEPT ![DescChunk(desc)].num_portals = 0]

\* map_asset_load.c:233-259: what the call does to map->nav_private.  It
\* makes no call into navigation
NavAfterUpdate(chs, desc, tile) == chs

\* map_asset_load.c:233-259
UpdateTile ==
    /\ pc = "done"
    /\ Len(updates) < MaxEdits
    /\ \E desc \in TileDescs : \E tile \in Tiles :
         IF DescInRange(desc)
         THEN /\ chunk_tiles' = [chunk_tiles EXCEPT ![DescChunk(desc)][DescTile(desc)] = tile]
              /\ chunks' = NavAfterUpdate(chunks, desc, tile)
              /\ updates' = Append(updates, [desc |-> desc, tile |-> tile, ret |-> TRUE])
         ELSE /\ updates' = Append(updates, [desc |-> desc, tile |-> tile, ret |-> FALSE])
              /\ UNCHANGED <<chunk_tiles, chunks>>
    /\ UNCHANGED <<pc, w, h, chunk_w, chunk_h, cur, n_links, ret, heap, builds, first, overlay, rest>>

NextEdit ==
    \/ Next
    \/ UpdateTile

SpecEdit == InitFew /\ [][NextEdit]_vars

(***************************************************************************)
(* n_link_chunks called on its own, on the first two chunks of a map whose *)
(* cost field is built, with any two edge types.                           *)
(***************************************************************************)
\* nav.c:39-44
EdgeTypes == {EDGE_BOT, EDGE_LEFT, EDGE_RIGHT, EDGE_TOP}

\* nav.c:82-157
LinkChunksAlone ==
    /\ pc = "portals"
    /\ cur = 1
    /\ w * h > 1
    /\ \E a_type \in EdgeTypes : \E b_type \in EdgeTypes :
         LET res == n_link_chunks(chunks[0], 0, a_type, <<0, 0>>,
                                  chunks[1], 1, b_type, <<1 \div w, 1 % w>>)
         IN  /\ chunks' = [chunks EXCEPT ![0] = res.a, ![1] = res.b]
             /\ walk' = << [a_type |-> a_type, b_type |-> b_type, st |-> res.st] >>
    /\ pc' = "walked"
    /\ UNCHANGED <<args, cur, n_links, ret, heap, builds, first, updates, overlay,
                   game, s_gs_map, built, frees, grid_path>>

NextWalk ==
    \/ Next
    \/ LinkChunksAlone

SpecWalk == Init /\ [][NextWalk]_vars

(***************************************************************************)
(* N_RenderPathableChunk on the loaded map.  A quad is the corner that the *)
(* code computes first, in units of the side of one cell (x runs to the    *)
(* negative), and its colour.                                              *)
(***************************************************************************)
\* nav.c:250, 391-392
YELLOW == <<1, 1, 0>>
RED == <<1, 0, 0>>
GREEN == <<0, 1, 0>>

\* nav.c:242-243, 385-386: square_x and square_z of cell (r, c)
QuadCorner(r, c) == <<0 - c, r>>

MIN(a, b) == IF a < b THEN a ELSE b
MAX(a, b) == IF a > b THEN a ELSE b

\* SpanQuads that draws the two endpoints of the portal
SpanQuads_endpoints(port) ==
    << [corner |-> QuadCorner(port.endpoints[1][1], port.endpoints[1][2]), color |-> YELLOW],
       [corner |-> QuadCorner(port.endpoints[2][1], port.endpoints[2][2]), color |-> YELLOW] >>

\* nav.c:230-253: the quads of one portal, rows outside and columns inside
SpanQuads(port) ==
    LET r_start == MIN(port.endpoints[1][1], port.endpoints[2][1])
        r_end == MAX(port.endpoints[1][1], port.endpoints[2][1])
        c_start == MIN(port.endpoints[1][2], port.endpoints[2][2])
        c_end == MAX(port.endpoints[1][2], port.endpoints[2][2])
        n_c == c_end - c_start + 1
    IN  [j \in 1..((r_end - r_start + 1) * n_c) |->
           [corner |-> QuadCorner(r_start + ((j - 1) \div n_c), c_start + ((j - 1) % n_c)),
            color |-> YELLOW]]

\* nav.c:228-254: the loop over the counted portals, from portal i on
RECURSIVE PortalQuadsFrom(_, _)
PortalQuadsFrom(chunk, i) ==
    IF i >= chunk.num_portals THEN <<>>
    ELSE SpanQuads(chunk.portals[i]) \o PortalQuadsFrom(chunk, i + 1)

\* nav.c:221-222: the quads that corners_buff and colors_buff hold
PortalBuffQuads == 2 * FIELD_RES_C + 2 * FIELD_RES_R

\* nav.c:215-258: the call of R_GL_DrawMapOverlayQuads
n_render_portals(chunk) ==
    LET quads == PortalQuadsFrom(chunk, 0)
    IN  [quads |-> quads, num_tiles |-> Len(quads)]

\* CellColor with the two colours exchanged
CellColor_exchanged(cost) == IF cost = COST_IMPASSABLE THEN GREEN ELSE RED

\* nav.c:391-392
CellColor(cost) == IF cost = COST_IMPASSABLE THEN RED ELSE GREEN

\* nav.c:378-399: the call of R_GL_DrawMapOverlayQuads
CellQuads(chunk) ==
    [quads |-> [j \in 1..(FIELD_RES_R * FIELD_RES_C) |->
                  LET r == (j - 1) \div FIELD_RES_C
                      c == (j - 1) % FIELD_RES_C
                  IN  [corner |-> QuadCorner(r, c), color |-> CellColor(chunk.cost_base[<<r, c>>])]],
     num_tiles |-> FIELD_RES_R * FIELD_RES_C]

\* nav.c:358-400.  More quads of portals than the buffers of n_render_portals
\* hold are written beyond them, and the behaviour is undefined from there on
RenderPathableChunk ==
    /\ pc = "done"
    /\ \E chunk_r \in 0..h : \E chunk_c \in 0..w :
         IF chunk_r < h /\ chunk_c < w
         THEN LET chunk == chunks[CHUNK_IDX(chunk_r, w, chunk_c)]
                  portals == n_render_portals(chunk)
              IN  IF portals.num_tiles > PortalBuffQuads
                  THEN /\ pc' = "undefined"
                       /\ overlay' = << [chunk_r |-> chunk_r, chunk_c |-> chunk_c, draws |-> <<>>] >>
                  ELSE /\ pc' = pc
                       /\ overlay' = << [chunk_r |-> chunk_r, chunk_c |-> chunk_c,
                                         draws |-> <<portals, CellQuads(chunk)>>] >>
         ELSE /\ pc' = "assert_fail"
              /\ overlay' = << [chunk_r |-> chunk_r, chunk_c |-> chunk_c, draws |-> <<>>] >>
    /\ UNCHANGED <<args, chunks, cur, n_links, ret, heap, builds, first, updates, rest>>

NextRender ==
    \/ Next
    \/ RenderPathableChunk

SpecRender == Init /\ [][NextRender]_vars

(***************************************************************************)
(* n_render_grid_path on the loaded map, with a path as the Grid           *)
(* Pathfinder writes it: a sequence of cells, each next to the one before. *)
(***************************************************************************)
\* nav.c:207
BLUE == <<0, 0, 1>>

RECURSIVE PathsOf(_)
PathsOf(n) ==
    IF n = 0 THEN { <<>> }
    ELSE IF n = 1 THEN { <<p>> : p \in Cells }
    ELSE { Append(path, q) : path \in PathsOf(n - 1), q \in Cells } \cap
         { path \in [1..n -> Cells] : path[n] \in GridNeighbours(path[n - 1]) }

Paths == UNION { PathsOf(n) : n \in 0..MaxPath }

\* nav.c:192-194: the indices i of the kv_A(*path, i) that the clauses of the
\* for statement evaluate, in program order: the first clause reads element
\* 0, the third clause reads element i after every i++, before i is compared
\* with the size
RECURSIVE PathReadsFrom(_, _)
PathReadsFrom(size, i) ==
    IF i < size THEN <<i + 1>> \o PathReadsFrom(size, i + 1) ELSE <<>>

PathReads(size) == <<0>> \o PathReadsFrom(size, 0)

\* nav.c:196-207: the quads of the body of the loop, from iteration i on;
\* r and c are those of element i
RECURSIVE PathQuadsFrom(_, _)
PathQuadsFrom(path, i) ==
    IF i < Len(path)
    THEN << [corner |-> QuadCorner(path[i + 1][1], path[i + 1][2]), color |-> BLUE] >>
         \o PathQuadsFrom(path, i + 1)
    ELSE <<>>

\* nav.c:180-213: the elements read and the call of R_GL_DrawMapOverlayQuads
n_render_grid_path(path) ==
    [reads |-> PathReads(Len(path)),
     draw |-> [quads |-> PathQuadsFrom(path, 0), num_tiles |-> Len(path)]]

\* a call of n_render_grid_path.  An element that is read at an index that
\* is not below the size of the path is not an element of the path: it is
\* read from memory that was never written or that lies beyond the array
\* (or from a null array, when the path is empty), and the call either goes
\* on with the value it got or the behaviour is undefined from there on
RenderGridPath ==
    /\ pc = "done"
    /\ grid_path = <<>>
    /\ \E path \in Paths :
         LET res == n_render_grid_path(path)
         IN  IF \E j \in 1..Len(res.reads) : res.reads[j] >= Len(path)
             THEN \/ /\ pc' = pc
                     /\ grid_path' = << [path |-> path, reads |-> res.reads,
                                         draws |-> <<res.draw>>] >>
                  \/ /\ pc' = "undefined"
                     /\ grid_path' = << [path |-> path, reads |-> res.reads,
                                         draws |-> <<>>] >>
             ELSE /\ pc' = pc
                  /\ grid_path' = << [path |-> path, reads |-> res.reads,
                                      draws |-> <<res.draw>>] >>
    /\ UNCHANGED <<args, chunks, cur, n_links, ret, heap, builds, first, updates, overlay,
                   walk, game, s_gs_map, built, frees>>

NextPath ==
    \/ Next
    \/ RenderGridPath

SpecPath == InitFew /\ [][NextPath]_vars

(***************************************************************************)
(* The game (game.c): G_NewGameWithMap and G_Shutdown after G_Init.  The   *)
(* store that call number n of N_BuildForMapData returned is store n; the  *)
(* null pointer is store 0.  s_gs_map is s_gs.map: no map, or the map with *)
(* its nav_private.  AL_MapFromPFMap and AL_MapFree (asset_load.c) are     *)
(* taken from section 2 of the specification: the map is loaded by         *)
(* M_AL_InitMapFromStream and is no map when that fails, and the store is  *)
(* released when the map unloads.                                          *)
(***************************************************************************)
\* nav.c:352-356: the assertion, then the store is freed once more
N_FreePrivate(nav_private, fr) ==
    IF nav_private = 0
    THEN [st |-> "assert", frees |-> [fr EXCEPT ![0] = @ + 1]]
    ELSE [st |-> "ok", frees |-> [fr EXCEPT ![nav_private] = @ + 1]]

\* map_asset_load.c:260-265
M_AL_FreePrivate(map, fr) ==
    IF map.nav_private = 0
    THEN [st |-> "assert", frees |-> fr]
    ELSE N_FreePrivate(map.nav_private, fr)

\* the map unloads: its private data is released
AL_MapFree(map, fr) == M_AL_FreePrivate(map, fr)

\* the map that is loaded when N_BuildForMapData has returned nav_private
\* as store n
AL_MapFromPFMap(nav_private, n) ==
    IF M_AL_InitMapFromStream(nav_private)
    THEN << [nav_private |-> n] >>
    ELSE <<>>

\* g_reset that forgets the map without unloading it
g_reset_leaking(map, fr) == [st |-> "ok", map |-> <<>>, frees |-> fr]

\* game.c:51-68: if(s_gs.map) AL_MapFree(s_gs.map); s_gs.map = NULL
g_reset(map, fr) ==
    IF map /= <<>>
    THEN LET res == AL_MapFree(map[1], fr)
         IN  [st |-> res.st, map |-> <<>>, frees |-> res.frees]
    ELSE [st |-> "ok", map |-> <<>>, frees |-> fr]

\* game.c:107-114: AL_MapFromPFMap returns to G_NewGameWithMap
NewGameEnd ==
    /\ game = "loading"
    /\ pc \in {"done", "fail_alloc"}
    /\ s_gs_map' = AL_MapFromPFMap(ret, builds)
    /\ built' = IF ret = "handle" THEN built \cup {builds} ELSE built
    /\ game' = "idle"
    /\ UNCHANGED <<args, pc, chunks, cur, n_links, ret, heap, builds, first, updates,
                   overlay, walk, frees, grid_path>>

\* game.c:103-107: G_NewGameWithMap is called, g_reset unloads the map and
\* AL_MapFromPFMap begins to load the next one, on memory that holds anything
NewGameBegin ==
    /\ game = "idle"
    /\ builds < MaxBuilds
    /\ LET res == g_reset(s_gs_map, frees)
       IN  /\ s_gs_map' = res.map
           /\ frees' = res.frees
           /\ IF res.st = "ok"
              THEN /\ game' = "loading"
                   /\ builds' = builds + 1
                   /\ heap' \in Garbage
                   /\ pc' = "start"
                   /\ chunks' = <<>>
                   /\ cur' = 0
                   /\ n_links' = 0
                   /\ ret' = None
              ELSE /\ game' = "assert_fail"
                   /\ UNCHANGED <<pc, chunks, cur, n_links, ret, heap, builds>>
    /\ UNCHANGED <<args, first, updates, overlay, walk, built, grid_path>>

\* game.c:117-126
G_Shutdown ==
    /\ game = "idle"
    /\ LET res == g_reset(s_gs_map, frees)
       IN  /\ s_gs_map' = res.map
           /\ frees' = res.frees
           /\ game' = IF res.st = "ok" THEN "shutdown" ELSE "assert_fail"
    /\ UNCHANGED <<args, pc, chunks, cur, n_links, ret, heap, builds, first, updates,
                   overlay, walk, built, grid_path>>

\* game.c:51-57, 103-105, 117-119: a call of G_NewGameWithMap or G_Shutdown
\* after G_Shutdown.  g_reset reads the list s_gs.active that kl_destroy
\* has freed (game.c:125): the behaviour is undefined from there on
AfterShutdown ==
    /\ game = "shutdown"
    /\ game' = "undefined"
    /\ UNCHANGED <<args, pc, chunks, cur, n_links, ret, heap, builds, first, updates,
                   overlay, walk, s_gs_map, built, frees, grid_path>>

NextGame ==
    \/ Next
    \/ NewGameEnd
    \/ NewGameBegin
    \/ G_Shutdown
    \/ AfterShutdown

SpecGame == InitFew /\ [][NextGame]_vars

(***************************************************************************)
(* Definitions the properties share.                                       *)
(***************************************************************************)
ChunkIds == 0..(w * h - 1)

ChunkCoord(k) == <<k \div w, k % w>>

\* the states in which num_portals and the cost grid of every chunk are set
CostFieldBuilt ==
    \/ pc \in {"portals", "link", "done", "undefined"}
    \/ pc = "assert_fail" /\ ResolutionAssert(chunk_w, chunk_h)

Counted(k) == 0..(chunks[k].num_portals - 1)

\* the edges of chunk k that it shares with a chunk, with that chunk and the
\* type of the edge on its side
SharedEdges(k) ==
    LET r == ChunkCoord(k)[1]
        c == ChunkCoord(k)[2]
    IN  (IF r < h - 1 THEN {[type |-> EDGE_BOT, other |-> CHUNK_IDX(r + 1, w, c), otype |-> EDGE_TOP]} ELSE {})
        \cup (IF r > 0 THEN {[type |-> EDGE_TOP, other |-> CHUNK_IDX(r - 1, w, c), otype |-> EDGE_BOT]} ELSE {})
        \cup (IF c < w - 1 THEN {[type |-> EDGE_RIGHT, other |-> CHUNK_IDX(r, w, c + 1), otype |-> EDGE_LEFT]} ELSE {})
        \cup (IF c > 0 THEN {[type |-> EDGE_LEFT, other |-> CHUNK_IDX(r, w, c - 1), otype |-> EDGE_RIGHT]} ELSE {})

\* the cell of position i of an edge of a chunk
EdgeCell(type, i) ==
    IF type = EDGE_TOP THEN <<0, i>>
    ELSE IF type = EDGE_BOT THEN <<FIELD_RES_R - 1, i>>
    ELSE IF type = EDGE_LEFT THEN <<i, 0>>
    ELSE <<i, FIELD_RES_C - 1>>

EdgeLen(type) == IF type \in {EDGE_TOP, EDGE_BOT} THEN FIELD_RES_C ELSE FIELD_RES_R

\* position i of the edge e of chunk k is crossable in the grids chs
Crossable(chs, k, e, i) ==
    /\ chs[k].cost_base[EdgeCell(e.type, i)] /= COST_IMPASSABLE
    /\ chs[e.other].cost_base[EdgeCell(e.otype, i)] /= COST_IMPASSABLE

\* the positions at which a maximal run of crossable positions starts
RunStarts(chs, k, e) ==
    { i \in 0..(EdgeLen(e.type) - 1) :
        Crossable(chs, k, e, i) /\ (i = 0 \/ ~Crossable(chs, k, e, i - 1)) }

\* the last position of the maximal run that starts at s
RunEnd(chs, k, e, s) ==
    CHOOSE j \in s..(EdgeLen(e.type) - 1) :
        /\ \A i \in s..j : Crossable(chs, k, e, i)
        /\ (j = EdgeLen(e.type) - 1 \/ ~Crossable(chs, k, e, j + 1))

\* portal p spans positions s .. t of the edge of type type
SpansOn(p, type, s, t) ==
    /\ p.endpoints[1] = EdgeCell(type, s)
    /\ p.endpoints[2] = EdgeCell(type, t)

\* the tile is impassable as section 4.1 of the specification defines it
TileImpassable(tile) ==
    ~tile.pathable \/ (tile.type /= TILETYPE_FLAT /\ tile.ramp_height > 1)

(***************************************************************************)
(* C1: after N_BuildForMapData every cost cell of the block of a tile is   *)
(* COST_IMPASSABLE when the tile is not pathable or is not flat with a     *)
(* ramp height above 1, and 1 otherwise.                                   *)
(***************************************************************************)
C1_CostField ==
    pc = "done" =>
      \A k \in ChunkIds : \A tile_r \in 0..(chunk_h - 1) : \A tile_c \in 0..(chunk_w - 1) :
        LET tile == chunk_tiles[k][tile_r * chunk_w + tile_c]
            rows == (tile_r * (FIELD_RES_R \div chunk_h))
                      ..(tile_r * (FIELD_RES_R \div chunk_h) + FIELD_RES_R \div chunk_h - 1)
            cols == (tile_c * (FIELD_RES_C \div chunk_w))
                      ..(tile_c * (FIELD_RES_C \div chunk_w) + FIELD_RES_C \div chunk_w - 1)
        IN  \A r \in rows : \A c \in cols :
              chunks[k].cost_base[<<r, c>>] =
                  IF TileImpassable(tile) THEN COST_IMPASSABLE ELSE 1

\* a finished build of a map with a pathable ramp tile of height above 1 in
\* a chunk of several tiles
C1_Witness ==
    /\ pc = "done"
    /\ chunk_w * chunk_h > 1
    /\ \E k \in ChunkIds : \E t \in 0..(chunk_w * chunk_h - 1) :
         /\ chunk_tiles[k][t].pathable
         /\ chunk_tiles[k][t].type /= TILETYPE_FLAT
         /\ chunk_tiles[k][t].ramp_height > 1

(***************************************************************************)
(* C2: one edge walk adds to num_portals of each of its two chunks the     *)
(* number of maximal runs of crossable positions of the shared edge,       *)
(* whatever the two cost grids hold.                                       *)
(***************************************************************************)
\* the edge of chunk ca.ai that the call with arguments ca walks
WalkedEdge(ca) == [type |-> ca.a_type, other |-> ca.bi, otype |-> ca.b_type]

C2_WalkCountsRuns ==
    [][(pc = "portals" /\ cur <= Len(LinkCalls(w, h)) /\ pc' = "portals") =>
         LET ca == CallArgs(LinkCalls(w, h)[cur])
             runs == Cardinality(RunStarts(chunks, ca.ai, WalkedEdge(ca)))
         IN  /\ chunks'[ca.ai].num_portals = chunks[ca.ai].num_portals + runs
             /\ chunks'[ca.bi].num_portals = chunks[ca.bi].num_portals + runs]_vars

(***************************************************************************)
(* C3: every counted portal describes exactly one maximal crossable run of *)
(* the edge it was found on: its endpoints are the first and the last      *)
(* position of the run, in this order.                                     *)
(***************************************************************************)
\* portal n of chunk k is a maximal run of an edge that k shares with the
\* chunk the portal is connected to
IsMaximalRun(k, n) ==
    LET p == chunks[k].portals[n]
    IN  \E e \in SharedEdges(k) :
          /\ e.other = p.connected[1]
          /\ \E s \in 0..(EdgeLen(e.type) - 1) : \E t \in s..(EdgeLen(e.type) - 1) :
               /\ SpansOn(p, e.type, s, t)
               /\ \A i \in s..t : Crossable(chunks, k, e, i)
               /\ s > 0 => ~Crossable(chunks, k, e, s - 1)
               /\ t < EdgeLen(e.type) - 1 => ~Crossable(chunks, k, e, t + 1)

C3_PortalIsMaximalRun ==
    CostFieldBuilt => \A k \in ChunkIds : \A n \in Counted(k) : IsMaximalRun(k, n)

\* an edge with two counted portals, the first closed at a blocked position
C3_Witness ==
    /\ CostFieldBuilt
    /\ \E k \in ChunkIds : \E n, m \in Counted(k) :
         /\ n /= m
         /\ chunks[k].portals[n].connected[1] = chunks[k].portals[m].connected[1]

(***************************************************************************)
(* C4: after Build every counted portal has exactly one counterpart: the   *)
(* portal it is connected to is a counted portal of the chunk across its   *)
(* edge, is connected back to it, carries the coordinate of that chunk and *)
(* has the same first and last position along the shared edge; no two      *)
(* portals have the same counterpart.                                      *)
(***************************************************************************)
CountedPortals == { <<k, n>> : k \in ChunkIds, n \in 0..(MAX_PORTALS_PER_CHUNK - 1) } \cap
                  { x \in ChunkIds \X (0..(MAX_PORTALS_PER_CHUNK - 1)) :
                      x[2] < chunks[x[1]].num_portals }

HasCounterpart(x) ==
    LET p == chunks[x[1]].portals[x[2]]
        y == p.connected
    IN  /\ p.chunk = ChunkCoord(x[1])
        /\ y \in CountedPortals
        /\ LET q == chunks[y[1]].portals[y[2]]
           IN  /\ q.connected = x
               /\ q.chunk = ChunkCoord(y[1])
               /\ \E e \in SharedEdges(x[1]) :
                    /\ e.other = y[1]
                    /\ \E s \in 0..(EdgeLen(e.type) - 1) : \E t \in 0..(EdgeLen(e.type) - 1) :
                         SpansOn(p, e.type, s, t) /\ SpansOn(q, e.otype, s, t)

C4_Counterparts ==
    pc = "done" =>
      /\ \A x \in CountedPortals : HasCounterpart(x)
      /\ \A x, y \in CountedPortals :
           chunks[x[1]].portals[x[2]].connected = chunks[y[1]].portals[y[2]].connected
             => x = y

\* a finished build in which a chunk has a portal at an index other than
\* the index of its counterpart
C4_Witness ==
    /\ pc = "done"
    /\ \E x \in CountedPortals : chunks[x[1]].portals[x[2]].connected[2] /= x[2]

(***************************************************************************)
(* C5: when the allocation succeeds, the resolution is a multiple of the   *)
(* chunk dimensions and no chunk gets more than MAX_PORTALS_PER_CHUNK      *)
(* portals, N_BuildForMapData fails no assertion, whatever the chunk grid. *)
(***************************************************************************)
C5_NoOtherAbort ==
    (pc = "assert_fail" /\ ResolutionAssert(chunk_w, chunk_h)) =>
        \E k \in ChunkIds : chunks[k].num_portals > MAX_PORTALS_PER_CHUNK

(***************************************************************************)
(* C6: n_create_portals walks the edge of every pair of chunks of which    *)
(* one is the right or the bottom neighbour of the other, once, and walks  *)
(* no other pair; the links it has tallied when its loops end are          *)
(* (w-1)*h + w*(h-1).                                                      *)
(***************************************************************************)
\* the pairs of chunks the calls of n_create_portals are made on
WalkedPairs == { <<CallArgs(LinkCalls(w, h)[n]).ai, CallArgs(LinkCalls(w, h)[n]).bi>> :
                   n \in 1..Len(LinkCalls(w, h)) }

AdjacentPairs ==
    { x \in ChunkIds \X ChunkIds :
        \/ ChunkCoord(x[2]) = <<ChunkCoord(x[1])[1] + 1, ChunkCoord(x[1])[2]>>
        \/ ChunkCoord(x[2]) = <<ChunkCoord(x[1])[1], ChunkCoord(x[1])[2] + 1>> }

PortalsCreated ==
    \/ pc = "portals" /\ cur > Len(LinkCalls(w, h))
    \/ pc \in {"link", "done"}
    \/ pc = "assert_fail" /\ ResolutionAssert(chunk_w, chunk_h)

BuildEnded == pc \in {"done", "fail_alloc", "assert_fail", "undefined"}

AllTilesPlain ==
    \A k \in ChunkIds : \A t \in 0..(chunk_w * chunk_h - 1) : chunk_tiles[k][t] = PlainTile

C7_TwoChunks ==
    (/\ w * h = 2
     /\ AllTilesPlain
     /\ ResolutionAssert(chunk_w, chunk_h)
     /\ BuildEnded
     /\ pc /= "fail_alloc") =>
        /\ pc = "done"
        /\ \A k \in ChunkIds :
             /\ chunks[k].num_portals = 1
             /\ chunks[k].portals[0].num_neighbours = 0
             /\ chunks[k].portals[0].connected = <<1 - k, 0>>
             /\ \E e \in SharedEdges(k) :
                  SpansOn(chunks[k].portals[0], e.type, 0, EdgeLen(e.type) - 1)

(***************************************************************************)
(* C8: once the Portal Linker has run on a chunk, a counted portal A of    *)
(* the chunk has an edge to another counted portal B of it exactly when    *)
(* the pathfinder finds a path in the cost grid of the chunk from the      *)
(* midpoint cell of A to the midpoint cell of B, and the cost of the edge  *)
(* is the cost the pathfinder returns.                                     *)
(***************************************************************************)
\* the chunks the third phase has linked
Linked(k) == (pc = "link" /\ k < cur) \/ pc = "done"

MidCell(p) ==
    << (p.endpoints[1][1] + p.endpoints[2][1]) \div 2,
       (p.endpoints[1][2] + p.endpoints[2][2]) \div 2 >>

\* the edges of portal a of chunk k that lead to portal b of chunk k
EdgesTo(k, a, b) ==
    { n \in 1..Len(chunks[k].portals[a].edges) :
        chunks[k].portals[a].edges[n].neighbour = <<k, b>> }

C8_EdgeIffPath ==
    \A k \in ChunkIds : Linked(k) =>
      \A a, b \in Counted(k) : a /= b =>
        LET pa == chunks[k].portals[a]
            res == AStar_GridPath(MidCell(pa), MidCell(chunks[k].portals[b]),
                                  chunks[k].cost_base)
        IN  /\ (EdgesTo(k, a, b) /= {}) <=> res.has_path
            /\ \A n \in EdgesTo(k, a, b) : pa.edges[n].cost = res.cost
            /\ pa.num_neighbours = Len(pa.edges)

\* a linked chunk with a portal of more than one cell that has an edge, and
\* a linked chunk with two portals and no edge from one to the other
C8_Witness ==
    /\ pc = "done"
    /\ \E k \in ChunkIds : \E a, b \in Counted(k) :
         /\ EdgesTo(k, a, b) /= {}
         /\ chunks[k].portals[a].endpoints[1] /= chunks[k].portals[a].endpoints[2]
    /\ \E k \in ChunkIds : \E a, b \in Counted(k) : a /= b /\ EdgesTo(k, a, b) = {}

(***************************************************************************)
(* C9: after Build, in a chunk whose cost grid holds no impassable cell    *)
(* every counted portal has an edge to every other counted portal of the   *)
(* chunk, so num_neighbours = num_portals - 1.                             *)
(***************************************************************************)
NoImpassableCell(k) == \A p \in Cells : chunks[k].cost_base[p] /= COST_IMPASSABLE

C9_FullyConnected ==
    pc = "done" =>
      \A k \in ChunkIds : NoImpassableCell(k) =>
        \A a \in Counted(k) :
          /\ \A b \in Counted(k) \ {a} : EdgesTo(k, a, b) /= {}
          /\ chunks[k].portals[a].num_neighbours = chunks[k].num_portals - 1

\* a finished build with a chunk without impassable cell and two portals
C9_Witness ==
    /\ pc = "done"
    /\ \E k \in ChunkIds : NoImpassableCell(k) /\ chunks[k].num_portals >= 2

(***************************************************************************)
(* C10: after Build, in a chunk that a full row or a full column of        *)
(* impassable cells splits in two, no portal that lies on one side of the  *)
(* line has an edge to a portal that lies on the other side.               *)
(***************************************************************************)
\* the cells of portal p
PortalCells(p) ==
    { c \in Cells : /\ p.endpoints[1][1] <= c[1] /\ c[1] <= p.endpoints[2][1]
                    /\ p.endpoints[1][2] <= c[2] /\ c[2] <= p.endpoints[2][2] }

\* coordinate d (1: row, 2: column) at value v is a wall of chunk k
IsWall(k, d, v) == \A c \in Cells : c[d] = v => chunks[k].cost_base[c] = COST_IMPASSABLE

\* portals a and b of chunk k lie on the two sides of a wall
AcrossWall(k, a, b) ==
    \E d \in {1, 2} : \E v \in 0..((IF d = 1 THEN FIELD_RES_R ELSE FIELD_RES_C) - 1) :
      /\ IsWall(k, d, v)
      /\ \A c \in PortalCells(chunks[k].portals[a]) : c[d] < v
      /\ \A c \in PortalCells(chunks[k].portals[b]) : c[d] > v

C10_NoEdgeAcrossWall ==
    pc = "done" =>
      \A k \in ChunkIds : \A a, b \in Counted(k) :
        AcrossWall(k, a, b) => EdgesTo(k, a, b) = {} /\ EdgesTo(k, b, a) = {}

\* a finished build with a chunk that has portals on both sides of a wall
C10_Witness ==
    /\ pc = "done"
    /\ \E k \in ChunkIds : \E a, b \in Counted(k) : AcrossWall(k, a, b)

(***************************************************************************)
(* C11: N_BuildForMapData is deterministic: a second call on the same      *)
(* arguments, whatever the memory it is given holds, builds the same cost  *)
(* grids, the same num_portals, the same portal records in the same order  *)
(* and the same edge lists in the same order as the first call.            *)
(***************************************************************************)
C11_Deterministic ==
    builds > 1 /\ pc = "done" => BuildResult(chunks) = first

\* a second call on other memory has returned a map with a blocked cell and
\* a portal that has an edge
C11_Witness ==
    /\ builds > 1 /\ pc = "done" /\ heap /= Uninit
    /\ \E k \in ChunkIds :
         /\ \E p \in Cells : chunks[k].cost_base[p] = COST_IMPASSABLE
         /\ \E n \in Counted(k) : chunks[k].portals[n].edges /= <<>>

(***************************************************************************)
(* C12: num_portals of a chunk never exceeds MAX_PORTALS_PER_CHUNK, and a  *)
(* call of N_BuildForMapData on a map that has a chunk with more runs of   *)
(* crossable positions on its shared edges than MAX_PORTALS_PER_CHUNK ends *)
(* in a failed assertion and returns no handle.                            *)
(***************************************************************************)
\* the runs of crossable positions on the shared edges of chunk k
RunsOfChunk(k) ==
    UNION { { <<e.type, s>> : s \in RunStarts(chunks, k, e) } : e \in SharedEdges(k) }

OverCapacity ==
    \E k \in ChunkIds : Cardinality(RunsOfChunk(k)) > MAX_PORTALS_PER_CHUNK

C12_CapacityAbort ==
    CostFieldBuilt =>
      /\ \A k \in ChunkIds : chunks[k].num_portals <= MAX_PORTALS_PER_CHUNK
      /\ OverCapacity => pc \in {"portals", "assert_fail"} /\ ret /= "handle"

(***************************************************************************)
(* C13: after a call of M_AL_UpdateTile with a descriptor in range, every  *)
(* cost cell of the block of the tile in the cost grid of its chunk is     *)
(* COST_IMPASSABLE when the new tile is not pathable or is not flat with a *)
(* ramp height above 1, and 1 otherwise.                                   *)
(***************************************************************************)
LastUpdate == updates[Len(updates)]

C13_UpdateRasterized ==
    updates /= <<>> /\ LastUpdate.ret =>
      LET u == LastUpdate
      IN  \A p \in TileBlock(chunk_w, chunk_h, u.desc.tile_r, u.desc.tile_c) :
            chunks[DescChunk(u.desc)].cost_base[p] =
              (IF TileImpassable(u.tile) THEN COST_IMPASSABLE ELSE 1)

(***************************************************************************)
(* C14: calls of M_AL_UpdateTile change no portal record, no num_portals   *)
(* and no edge: after any of them the portals and the edges of every chunk *)
(* are those that N_BuildForMapData built.                                 *)
(***************************************************************************)
C14_UpdateKeepsGraph ==
    updates /= <<>> =>
      \A k \in ChunkIds :
        /\ chunks[k].num_portals = first[k].num_portals
        /\ \A n \in 0..(first[k].num_portals - 1) : chunks[k].portals[n] = first[k].portals[n]

\* a tile of a chunk that has a portal with an edge was made impassable
C14_Witness ==
    /\ updates /= <<>> /\ LastUpdate.ret /\ TileImpassable(LastUpdate.tile)
    /\ \E n \in Counted(DescChunk(LastUpdate.desc)) :
         chunks[DescChunk(LastUpdate.desc)].portals[n].edges /= <<>>

(***************************************************************************)
(* C15: when the allocation in N_BuildForMapData fails, the call returns   *)
(* NULL, no chunk has a cost cell or a portal written and no link is       *)
(* tallied, and M_AL_InitMapFromStream returns false.                      *)
(***************************************************************************)
C15_AllocFailure ==
    pc = "fail_alloc" =>
      /\ ret = NULL
      /\ chunks = <<>>
      /\ n_links = 0
      /\ M_AL_InitMapFromStream(ret) = FALSE

\* the allocation failed for a map of more than one chunk with a tile that
\* is not plain
C15_Witness ==
    pc = "fail_alloc" /\ w * h > 1 /\ NonPlain /= {}

(***************************************************************************)
(* C16: when FIELD_RES_R is no multiple of chunk_h or FIELD_RES_C is no    *)
(* multiple of chunk_w, a call of N_BuildForMapData whose allocation       *)
(* succeeds fails an assertion, with no cost cell written, no num_portals  *)
(* set and no portal written.                                              *)
(***************************************************************************)
C16_ResolutionAbort ==
    FIELD_RES_R % chunk_h /= 0 \/ FIELD_RES_C % chunk_w /= 0 =>
      /\ pc \in {"start", "fail_alloc", "assert_fail"}
      /\ ret /= "handle"
      /\ \A k \in DOMAIN chunks :
           /\ chunks[k].num_portals = heap
           /\ \A p \in Cells : chunks[k].cost_base[p] = heap
           /\ \A n \in DOMAIN chunks[k].portals : chunks[k].portals[n] = UninitPortal

\* the assertion failed for chunks that are wider than the cost grid and of
\* a height that divides FIELD_RES_R
C16_Witness ==
    /\ pc = "assert_fail"
    /\ chunks /= <<>>
    /\ chunk_w > FIELD_RES_C /\ FIELD_RES_R % chunk_h = 0

(***************************************************************************)
(* C17: after N_BuildForMapData every counted portal of a chunk lies on    *)
(* one boundary line of the chunk behind which there is a chunk, the chunk *)
(* of its counterpart: both endpoints are in row 0, or both in row         *)
(* FIELD_RES_R - 1, or both in column 0, or both in column                 *)
(* FIELD_RES_C - 1; and no portal of more than one cell lies on a boundary *)
(* line behind which there is no chunk.                                    *)
(***************************************************************************)
\* portal p lies on the row (d = 1) or column (d = 2) v
OnLine(p, d, v) == p.endpoints[1][d] = v /\ p.endpoints[2][d] = v

EdgeCosts(k, a, b) ==
    { chunks[k].portals[a].edges[n].cost : n \in EdgesTo(k, a, b) }

C18_EdgesSymmetric ==
    pc = "done" =>
      \A k \in ChunkIds : \A a, b \in Counted(k) :
        EdgeCosts(k, a, b) = EdgeCosts(k, b, a)

\* two portals of a chunk with an edge of more than one step either way,
\* and two portals of a chunk with no edge either way
C18_Witness ==
    /\ pc = "done"
    /\ \E k \in ChunkIds : \E a, b \in Counted(k) :
         a /= b /\ \E x \in EdgeCosts(k, a, b) : x > 1
    /\ \E k \in ChunkIds : \E a, b \in Counted(k) :
         a /= b /\ EdgeCosts(k, a, b) = {} /\ EdgeCosts(k, b, a) = {}

(***************************************************************************)
(* C19: a call of N_RenderPathableChunk for a chunk of the map makes one   *)
(* draw call of exactly FIELD_RES_R * FIELD_RES_C quads, one for each cost *)
(* cell in row-major order, the quad of cell (r, c) red when               *)
(* cost_base[r][c] is COST_IMPASSABLE and green otherwise.                 *)
(***************************************************************************)
\* the chunk the last call of N_RenderPathableChunk was made for
Rendered == overlay[1].chunk_r * w + overlay[1].chunk_c

RenderedInRange == overlay /= <<>> /\ overlay[1].chunk_r < h /\ overlay[1].chunk_c < w

\* the draw call d has one quad for every cost cell of chunk k, row by row,
\* in the colour of the cell
IsCellBatch(d, k) ==
    /\ d.num_tiles = FIELD_RES_R * FIELD_RES_C
    /\ Len(d.quads) = FIELD_RES_R * FIELD_RES_C
    /\ \A r \in 0..(FIELD_RES_R - 1) : \A c \in 0..(FIELD_RES_C - 1) :
         LET q == d.quads[r * FIELD_RES_C + c + 1]
         IN  /\ q.corner = <<0 - c, r>>
             /\ q.color = (IF chunks[k].cost_base[<<r, c>>] = COST_IMPASSABLE
                           THEN <<1, 0, 0>> ELSE <<0, 1, 0>>)

C19_CellBatch ==
    RenderedInRange =>
      Cardinality({ i \in 1..Len(overlay[1].draws) :
                      IsCellBatch(overlay[1].draws[i], Rendered) }) = 1

\* a chunk with an impassable and a passable cell was rendered
C19_Witness ==
    /\ RenderedInRange
    /\ \E p, q \in Cells :
         /\ chunks[Rendered].cost_base[p] = COST_IMPASSABLE
         /\ chunks[Rendered].cost_base[q] /= COST_IMPASSABLE

(***************************************************************************)
(* C20: a call of N_RenderPathableChunk for a chunk of the map makes one   *)
(* draw call of yellow quads only, with one quad for each cell of the span *)
(* of each counted portal of the chunk: as many quads as the lengths of    *)
(* the spans add up to, and no quad for a cell outside every span.         *)
(***************************************************************************)
\* the counted portals of chunk k whose span holds cell p
PortalsAt(k, p) == { n \in Counted(k) : p \in PortalCells(chunks[k].portals[n]) }

RECURSIVE SpanSum(_, _)
SpanSum(k, n) ==
    IF n >= chunks[k].num_portals THEN 0
    ELSE Cardinality(PortalCells(chunks[k].portals[n])) + SpanSum(k, n + 1)

\* the draw call d has yellow quads only: for every cell as many as there
\* are counted portals of chunk k with the cell in their span
IsPortalBatch(d, k) ==
    /\ d.num_tiles = Len(d.quads)
    /\ Len(d.quads) = SpanSum(k, 0)
    /\ \A j \in 1..Len(d.quads) : d.quads[j].color = <<1, 1, 0>>
    /\ \A p \in Cells :
         Cardinality({ j \in 1..Len(d.quads) : d.quads[j].corner = <<0 - p[2], p[1]>> })
           = Cardinality(PortalsAt(k, p))
    /\ \A j \in 1..Len(d.quads) :
         \E p \in Cells : d.quads[j].corner = <<0 - p[2], p[1]>> /\ PortalsAt(k, p) /= {}

C20_PortalBatch ==
    RenderedInRange =>
      Cardinality({ i \in 1..Len(overlay[1].draws) :
                      IsPortalBatch(overlay[1].draws[i], Rendered) }) = 1

\* a chunk was rendered that has a portal of more than one cell and a cell
\* in the span of two portals
C20_Witness ==
    /\ RenderedInRange
    /\ \E n \in Counted(Rendered) : Cardinality(PortalCells(chunks[Rendered].portals[n])) > 1
    /\ \E p \in Cells : Cardinality(PortalsAt(Rendered, p)) > 1

(***************************************************************************)
(* C21: in every call of N_RenderPathableChunk for a chunk of the map the  *)
(* draw call of the portal quads is made after the draw call of the quads  *)
(* of the cost cells.                                                      *)
(***************************************************************************)
C21_PortalsDrawnLast ==
    RenderedInRange =>
      \E i, j \in 1..Len(overlay[1].draws) :
        /\ i < j
        /\ IsCellBatch(overlay[1].draws[i], Rendered)
        /\ IsPortalBatch(overlay[1].draws[j], Rendered)

(***************************************************************************)
(* C22: n_set_cost_for_tile for tile (tile_r, tile_c) changes the cost     *)
(* cells of the block of that tile only: every other cell of the cost grid *)
(* of the chunk keeps its value, and the portals of the chunk and every    *)
(* other chunk are as they were; the blocks of two tiles of a chunk have   *)
(* no cell in common.                                                      *)
(***************************************************************************)
\* the cells of the cost grid that the tile (tile_r, tile_c) covers
CellsOfTile(tile_r, tile_c) ==
    { p \in Cells : /\ p[1] \div (FIELD_RES_R \div chunk_h) = tile_r
                    /\ p[2] \div (FIELD_RES_C \div chunk_w) = tile_c }

\* the cost grid of the chunk that is next when the first k of its tiles
\* are rasterized
RECURSIVE GridBefore(_)
GridBefore(k) ==
    IF k = 0 THEN chunks[cur].cost_base
    ELSE n_set_cost_for_tile(GridBefore(k - 1), chunk_w, chunk_h,
                             (k - 1) \div chunk_w, (k - 1) % chunk_w, chunk_tiles[cur][k - 1])

C22_TileLocal ==
    [][pc = "cost" =>
         /\ \A k \in 0..(chunk_w * chunk_h - 1) :
              LET before == GridBefore(k)
                  after == GridBefore(k + 1)
                  block == CellsOfTile(k \div chunk_w, k % chunk_w)
              IN  /\ \A p \in Cells \ block : after[p] = before[p]
                  /\ \A p \in block : after[p] \in {1, COST_IMPASSABLE}
                  /\ DOMAIN after = Cells
                  /\ \A m \in 0..(chunk_w * chunk_h - 1) :
                       m /= k => block \cap CellsOfTile(m \div chunk_w, m % chunk_w) = {}
         /\ chunks'[cur].cost_base = GridBefore(chunk_w * chunk_h)
         /\ chunks'[cur].portals = chunks[cur].portals
         /\ \A k \in ChunkIds \ {cur} : chunks'[k] = chunks[k]]_vars

\* the second chunk of a map is next, and the first has tiles of either cost
C22_Witness ==
    /\ pc = "cost" /\ cur = 1
    /\ \E p, q \in Cells :
         chunks[0].cost_base[p] = 1 /\ chunks[0].cost_base[q] = COST_IMPASSABLE

(***************************************************************************)
(* C23: N_BuildForMapData runs its three phases in order.  Every cost cell *)
(* of every chunk is written when the first edge is walked; every pair of  *)
(* adjacent chunks is walked when the first chunk is linked; and linking   *)
(* changes no cost cell, no num_portals and nothing of a portal but its    *)
(* edges.                                                                  *)
(***************************************************************************)
\* a portal without its edges
Unlinked(p) == [p EXCEPT !.edges = <<>>, !.num_neighbours = 0]

C23_PhasesInOrder ==
    [][/\ pc = "cost" => pc' \in {"cost", "portals"}
       /\ pc = "portals" =>
            /\ pc' \in {"portals", "link", "assert_fail", "undefined"}
            /\ \A k \in ChunkIds : \A p \in Cells :
                 /\ chunks[k].cost_base[p] \in {1, COST_IMPASSABLE}
                 /\ chunks'[k].cost_base[p] = chunks[k].cost_base[p]
            /\ pc' = "link" => cur - 1 = Cardinality(AdjacentPairs)
       /\ pc = "link" =>
            /\ pc' \in {"link", "done"}
            /\ \A k \in ChunkIds :
                 /\ chunks'[k].cost_base = chunks[k].cost_base
                 /\ chunks'[k].num_portals = chunks[k].num_portals
                 /\ \A n \in DOMAIN chunks[k].portals :
                      Unlinked(chunks'[k].portals[n]) = Unlinked(chunks[k].portals[n])]_vars

\* the second chunk of a map with an impassable cell is about to be linked,
\* and a portal of the first chunk has an edge
C23_Witness ==
    /\ pc = "link" /\ cur = 1
    /\ \E n \in Counted(0) : chunks[0].portals[n].edges /= <<>>
    /\ \E k \in ChunkIds : \E p \in Cells : chunks[k].cost_base[p] = COST_IMPASSABLE

(***************************************************************************)
(* C24: a call of n_link_chunks with two edge types that are not           *)
(* EDGE_BOT with EDGE_TOP or EDGE_LEFT with EDGE_RIGHT fails the assertion *)
(* at its entry and creates no portal.                                     *)
(***************************************************************************)
WellFormedPair(a_type, b_type) ==
    {a_type, b_type} \in {{EDGE_BOT, EDGE_TOP}, {EDGE_LEFT, EDGE_RIGHT}}

C24_MalformedPairAsserts ==
    walk /= <<>> /\ ~WellFormedPair(walk[1].a_type, walk[1].b_type) =>
      /\ walk[1].st = "assert"
      /\ \A k \in ChunkIds : chunks[k].num_portals = 0

(***************************************************************************)
(* C25: after N_BuildForMapData every edge of a counted portal leads to a  *)
(* counted portal of the same chunk that is another portal, no portal has  *)
(* two edges to one portal, and num_neighbours of a portal is the number   *)
(* of its edges, at most num_portals - 1 of its chunk and so at most       *)
(* MAX_PORTALS_PER_CHUNK - 1, the size of edges[].                         *)
(***************************************************************************)
C25_EdgeTargets ==
    pc = "done" =>
      \A k \in ChunkIds : \A n \in Counted(k) :
        LET p == chunks[k].portals[n]
        IN  /\ \A x \in 1..Len(p.edges) :
                 /\ p.edges[x].neighbour[1] = k
                 /\ p.edges[x].neighbour[2] \in Counted(k)
                 /\ p.edges[x].neighbour[2] /= n
                 /\ \A y \in 1..Len(p.edges) :
                      p.edges[x].neighbour = p.edges[y].neighbour => x = y
            /\ p.num_neighbours = Len(p.edges)
            /\ p.num_neighbours <= chunks[k].num_portals - 1
            /\ p.num_neighbours <= MAX_PORTALS_PER_CHUNK - 1

\* a portal of a chunk that is not the first of the map has as many edges as
\* edges[] holds
C25_Witness ==
    /\ pc = "done"
    /\ \E k \in ChunkIds \ {0} : \E n \in Counted(k) :
         chunks[k].portals[n].num_neighbours = MAX_PORTALS_PER_CHUNK - 1

(***************************************************************************)
(* C26: when N_BuildForMapData has returned a handle, every cost cell of   *)
(* every chunk has been written, none holds what malloc left there, and    *)
(* each holds 1 or COST_IMPASSABLE.                                        *)
(***************************************************************************)
C26_AllCellsWritten ==
    ret = "handle" =>
      \A k \in ChunkIds :
        /\ DOMAIN chunks[k].cost_base = (0..(FIELD_RES_R - 1)) \X (0..(FIELD_RES_C - 1))
        /\ \A r \in 0..(FIELD_RES_R - 1) : \A c \in 0..(FIELD_RES_C - 1) :
             /\ chunks[k].cost_base[<<r, c>>] /= heap
             /\ chunks[k].cost_base[<<r, c>>] \in {1, COST_IMPASSABLE}

\* a handle is returned for a map of several chunks with cells of either
\* cost in its last chunk
C26_Witness ==
    /\ ret = "handle" /\ w * h > 1
    /\ \E p, q \in Cells :
         /\ chunks[w * h - 1].cost_base[p] = 1
         /\ chunks[w * h - 1].cost_base[q] = COST_IMPASSABLE

(***************************************************************************)
(* C28: during Portal Discovery no portal is written beyond portals[]: at  *)
(* every position at which a call of n_link_chunks opens a portal,         *)
(* num_portals of either chunk is less than MAX_PORTALS_PER_CHUNK.         *)
(***************************************************************************)
\* the edge that the call with arguments ca walks, seen from chunk a
EdgeOfCall(ca) == [type |-> ca.a_type, other |-> ca.bi, otype |-> ca.b_type]

\* the portals the call has counted when it opens the run that starts at s,
\* in a chunk that had n counted portals when the call began
CountedAt(ca, n, s) ==
    n + Cardinality({ t \in RunStarts(chunks, ca.ai, EdgeOfCall(ca)) : t < s })

C28_OpensBelowCapacity ==
    pc = "portals" /\ cur <= Len(LinkCalls(w, h)) =>
      LET ca == CallArgs(LinkCalls(w, h)[cur])
      IN  \A s \in RunStarts(chunks, ca.ai, EdgeOfCall(ca)) :
            /\ CountedAt(ca, chunks[ca.ai].num_portals, s) < MAX_PORTALS_PER_CHUNK
            /\ CountedAt(ca, chunks[ca.bi].num_portals, s) < MAX_PORTALS_PER_CHUNK

(***************************************************************************)
(* C30: the midpoint cell of every counted portal, as the Portal Linker    *)
(* computes it, lies between the two endpoints of the portal and is a cell *)
(* of the grid of the portal's chunk whose cost is not COST_IMPASSABLE.    *)
(***************************************************************************)
InSpan(port, m) ==
    /\ MIN(port.endpoints[1][1], port.endpoints[2][1]) <= m[1]
    /\ m[1] <= MAX(port.endpoints[1][1], port.endpoints[2][1])
    /\ MIN(port.endpoints[1][2], port.endpoints[2][2]) <= m[2]
    /\ m[2] <= MAX(port.endpoints[1][2], port.endpoints[2][2])

C30_MidpointPassable ==
    pc \in {"portals", "link", "done"} =>
      \A x \in CountedPortals :
        LET port == chunks[x[1]].portals[x[2]]
            m == Midpoint(port)
        IN  /\ InSpan(port, m)
            /\ m \in (0..(FIELD_RES_R - 1)) \X (0..(FIELD_RES_C - 1))
            /\ chunks[x[1]].cost_base[m] /= COST_IMPASSABLE

\* the Portal Linker has run on a chunk with two counted portals, one of
\* which spans an even number of cells (the division rounds) and the chunk
\* has an impassable cell
C30_Witness ==
    /\ pc = "done"
    /\ \E x, y \in CountedPortals :
         LET port == chunks[x[1]].portals[x[2]]
         IN  /\ x[1] = y[1] /\ x /= y
             /\ (port.endpoints[1][1] + port.endpoints[2][1]
                 + port.endpoints[1][2] + port.endpoints[2][2]) % 2 = 1
             /\ port.endpoints[1] /= port.endpoints[2]
             /\ \E q \in DOMAIN chunks[x[1]].cost_base :
                  chunks[x[1]].cost_base[q] = COST_IMPASSABLE

(***************************************************************************)
(* C29: a call of n_render_grid_path that draws submits one blue quad for  *)
(* every cell of the path, in the order of the path, and the call reads    *)
(* elements of the path at the indices 0 .. size-1 only, for the empty     *)
(* path as for any other.                                                  *)
(***************************************************************************)
C29_ReadsWithinPath ==
    \A n \in 1..Len(grid_path) :
      LET g == grid_path[n]
      IN  /\ \A j \in 1..Len(g.reads) : g.reads[j] >= 0 /\ g.reads[j] < Len(g.path)
          /\ \A d \in 1..Len(g.draws) :
               /\ g.draws[d].num_tiles = Len(g.path)
               /\ Len(g.draws[d].quads) = Len(g.path)
               /\ \A j \in 1..Len(g.path) :
                    g.draws[d].quads[j] =
                      [corner |-> QuadCorner(g.path[j][1], g.path[j][2]), color |-> BLUE]

(***************************************************************************)
(* C27: over the calls of G_NewGameWithMap and G_Shutdown, N_FreePrivate   *)
(* is never called with the null handle and never twice with one store;    *)
(* a store that was built is the store of the loaded map, and is not       *)
(* released, or its map was unloaded by g_reset, and it is released once;  *)
(* no other store is released; there is at most one loaded map, and after  *)
(* G_Shutdown there is none.                                               *)
(***************************************************************************)
\* the stores of the loaded maps
LiveStores == { s_gs_map[n].nav_private : n \in 1..Len(s_gs_map) }

C27_ReleasedOnce ==
    /\ game /= "assert_fail"
    /\ frees[0] = 0
    /\ Len(s_gs_map) <= 1
    /\ LiveStores \subseteq built
    /\ Cardinality(built \ { m \in built : frees[m] = 1 }) <= 1
    /\ \A m \in 1..MaxBuilds :
         /\ frees[m] <= 1
         /\ frees[m] = 1 <=> (m \in built /\ m \notin LiveStores)
    /\ game \in {"shutdown", "undefined"} => LiveStores = {}

\* two maps were loaded, the first was unloaded by G_NewGameWithMap and the
\* second by G_Shutdown
C27_Witness ==
    /\ game = "shutdown"
    /\ built = {1, 2}
    /\ frees[1] = 1 /\ frees[2] = 1

====
